---- MODULE Spec2Model ----
(***************************************************************************)
(* HellOS kernel core: the heap allocator of kernel/memory.c and the       *)
(* process table and scheduler of kernel/process.c.                        *)
(*                                                                         *)
(* Addresses are integers.  A block header lives at its address in `mem`;  *)
(* a header that coalescing has dropped from the list stays in memory      *)
(* (as in C) until something overwrites it.  A process descriptor is       *)
(* addressed by its slot number 1..MAX_PROCESSES (slot i is processes[i-1])*)
(* and NULL is 0.                                                          *)
(***************************************************************************)
EXTENDS Integers, Sequences, FiniteSets, TLC

NULL == 0

\* ---------------------------------------------------------------- bounds
\* width of size_t in the model (the build has 64; TLC integers have 32)
SizeBits == 24
\* malloc/calloc/realloc are not called once the block list is this long
MaxBlocks == 3
\* free() is not called with an invalid handle once the counter is here
MaxCorrupted == 1
\* calls of free or realloc with a handle that is not live (freed already)
MaxMisuse == 1
\* freed handles a caller keeps
MaxStale == 1
\* malloc/calloc/realloc are not called once the last block of the list
\* starts further than this into the arena
MaxExtent == 1024
\* the capacity of the process table in the model (the build has 64)
MAX_PROCESSES == 2
\* create_process is not called once next_pid is past this
MaxPid == 2
\* create_process is called this many times more for a slot that
\* terminate_process has released
MaxReuse == 1
\* no call is made that would take the count of context switches past this
MaxSwitches == 2
\* no call is made once the time counter has reached this
MaxTime == 12
\* width of uint32_t in the model, for the pid counter (the build has 32)
PidBits == 3
\* the timer does not raise its line once this many ticks were served
MaxTicks == 2
\* with the timer running no function is entered once the time counter has
\* reached this
MaxOpTime == 3

SizeMod == 2 ^ SizeBits
PidMod == 2 ^ PidBits
SIZE_MAX == SizeMod - 1

\* ------------------------------------------------------------- constants
HEAP_START == 2097152
HEAP_SIZE == 8388608
\* sizeof(memory_block_t) on x86_64: 4 + 1 (+3) + 8 + 8 + 4 (+4)
HeaderSize == 32
STACK_SIZE == 32768

BLOCK_MAGIC_ALLOCATED == "DEADBEEF"
BLOCK_MAGIC_FREE == "FEEDFACE"
\* contents of memory that was never a header, or zero-filled, or user data
MagicZero == "00000000"
MagicData == "data"

\* ALIGN_UP(addr, 8) in size_t arithmetic
ALIGN_UP(addr) ==
    LET y == (addr + 7) % SizeMod IN y - (y % 8)

\* ------------------------------------------------------------ heap state
\* The allocator's globals as one record, so that the C functions are
\* operators from heap to heap:
\*   init  memory_initialized      start heap_start     end heap_end
\*   mem   address -> header       stats memory_stats
\*   data  what the payloads of the live blocks hold: payload address ->
\*         [from, len], the first len bytes being the first len bytes the
\*         caller wrote to the block it got at address from (from NULL:
\*         zero bytes); bytes past len are not known
\*   trap  "none", or "hang" (a list walk that never ends), or "wild" (the
\*         code read memory whose contents the model does not know)
Header(size, is_free, next, prev, magic) ==
    [size |-> size, is_free |-> is_free, next |-> next, prev |-> prev,
     magic |-> magic]

ZeroHeader == Header(0, FALSE, NULL, NULL, MagicZero)
DataHeader == Header(0, FALSE, NULL, NULL, MagicData)

NoStats ==
    [total_memory |-> 0, used_memory |-> 0, free_memory |-> 0,
     allocated_blocks |-> 0, free_blocks |-> 0, corrupted_blocks |-> 0]

HeapStatic ==
    [init |-> FALSE, start |-> NULL, end |-> NULL, mem |-> <<>>,
     data |-> <<>>, stats |-> NoStats, trap |-> "none"]

\* mem with the header at address a replaced (or created)
Store(mem, a, h) ==
    [x \in (DOMAIN mem) \cup {a} |-> IF x = a THEN h ELSE mem[x]]

\* the header at address a; memory that never held a header reads as data
Load(mem, a) ==
    IF a \in DOMAIN mem THEN mem[a] ELSE DataHeader

\* a write of a whole header at address a tears every other header that
\* overlaps it by less than a header
Torn(mem, a) ==
    {x \in DOMAIN mem : x # a /\ x > a - HeaderSize /\ x < a + HeaderSize}

init_memory_manager(H) ==
    [init |-> TRUE,
     start |-> HEAP_START,
     end |-> HEAP_START + HEAP_SIZE,
     mem |-> Store(H.mem, HEAP_START,
                   Header(HEAP_SIZE - HeaderSize, TRUE, NULL, NULL,
                          BLOCK_MAGIC_FREE)),
     data |-> H.data,
     stats |-> [total_memory |-> HEAP_SIZE,
                used_memory |-> HeaderSize,
                free_memory |-> HEAP_SIZE - HeaderSize,
                allocated_blocks |-> 0,
                free_blocks |-> 1,
                corrupted_blocks |-> 0],
     trap |-> IF Torn(H.mem, HEAP_START) = {} THEN H.trap ELSE "wild"]

\* The blocks reachable from heap_start by next, in order, as the walks of
\* find_free_block and display_memory_info visit them (current &&
\* current < heap_end); fuel stops the walk of a cyclic list.
RECURSIVE Walk(_, _, _, _)
Walk(mem, end, current, fuel) ==
    IF current = NULL \/ ~(current < end) \/ fuel = 0
    THEN <<>>
    ELSE <<current>> \o Walk(mem, end, Load(mem, current).next, fuel - 1)

WalkFuel(H) == Cardinality(DOMAIN H.mem) + 1

BlockList(H) == Walk(H.mem, H.end, H.start, WalkFuel(H))

\* the walk from heap_start never ends
Cyclic(H) == Len(BlockList(H)) = WalkFuel(H)

\* the positions of list l whose block is free and holds size bytes
Fits(mem, l, size) ==
    {i \in 1..Len(l) : mem[l[i]].is_free /\ mem[l[i]].size >= size}

Lowest(S) == CHOOSE i \in S : \A j \in S : i <= j
Highest(S) == CHOOSE i \in S : \A j \in S : j <= i

\* the block find_free_block returns when the list is l and the fitting
\* positions are fit: NULL if none, -1 if the walk never ends
FirstFit(H, l, fit) ==
    IF fit = {} THEN (IF Len(l) = WalkFuel(H) THEN -1 ELSE NULL)
    ELSE l[Lowest(fit)]

LastFit(H, l, fit) ==
    IF fit = {} THEN (IF Len(l) = WalkFuel(H) THEN -1 ELSE NULL)
    ELSE l[Highest(fit)]

find_free_block_lastfit(H, size) ==
    LastFit(H, BlockList(H), Fits(H.mem, BlockList(H), size))

find_free_block(H, size) ==
    FirstFit(H, BlockList(H), Fits(H.mem, BlockList(H), size))

\* the code is about to read a header whose bytes the model does not know
Unknown(H, a) == a # NULL /\ Load(H.mem, a).magic = MagicData

\* one step of a trap: the first trap sticks
Trap(H, t) == [H EXCEPT !.trap = IF H.trap = "none" THEN t ELSE H.trap]

\* if (new_block->next) new_block->next->prev = new_block, and its like
LinkPrev(mem, next, p) ==
    IF next # NULL /\ next \in DOMAIN mem
    THEN [mem EXCEPT ![next].prev = p]
    ELSE mem

\* split_block past its early return: b is the header of block, new_block
\* the address of the new header
SplitAt(H, block, size, b, new_block) ==
    [H EXCEPT
       !.mem = LinkPrev([Store(H.mem, new_block,
                               Header(b.size - size - HeaderSize, TRUE,
                                      b.next, block, BLOCK_MAGIC_FREE))
                           EXCEPT ![block].size = size,
                                  ![block].next = new_block],
                        b.next, new_block),
       !.stats.free_blocks = @ + 1,
       !.trap = IF @ = "none" /\ Torn(H.mem, new_block) # {}
                THEN "wild" ELSE @]

split_block(H, block, size) ==
    IF block = NULL \/ Load(H.mem, block).size <= (size + HeaderSize) % SizeMod
    THEN H
    ELSE SplitAt(H, block, size, Load(H.mem, block),
                 block + HeaderSize + size)

\* coalesce_blocks, first half: b is the header of block, n of its next
CoalesceNextWith(H, block, b, n) ==
    IF b.next # NULL /\ n.is_free
    THEN [H EXCEPT
            !.mem = LinkPrev([@ EXCEPT ![block].size = @ + n.size + HeaderSize,
                                       ![block].next = n.next],
                             n.next, block),
            !.stats.free_blocks = @ - 1]
    ELSE H

CoalesceNext(H, block) ==
    CoalesceNextWith(H, block, Load(H.mem, block),
                     Load(H.mem, Load(H.mem, block).next))

\* coalesce_blocks, second half: b is the header of block, p of its prev
CoalescePrevWith(H, block, b, p) ==
    IF b.prev # NULL /\ p.is_free
    THEN [H EXCEPT
            !.mem = LinkPrev([@ EXCEPT ![b.prev].size = @ + b.size + HeaderSize,
                                       ![b.prev].next = b.next],
                             b.next, b.prev),
            !.stats.free_blocks = @ - 1]
    ELSE H

CoalescePrev(H, block) ==
    CoalescePrevWith(H, block, Load(H.mem, block),
                     Load(H.mem, Load(H.mem, block).prev))

coalesce_blocks(H, block) ==
    IF block = NULL \/ ~Load(H.mem, block).is_free
    THEN H
    ELSE IF Unknown(H, Load(H.mem, block).next)
            \/ Unknown(H, Load(H.mem, block).prev)
         THEN Trap(H, "wild")
         ELSE CoalescePrev(CoalesceNext(H, block), block)

validate_block(H, block) ==
    /\ block # NULL
    /\ ~(block < H.start \/ block >= H.end)
    /\ Load(H.mem, block).magic \in {BLOCK_MAGIC_ALLOCATED, BLOCK_MAGIC_FREE}

\* the result of a call that returns a pointer: the heap after it and the
\* pointer
Ret(H, ptr) == [H |-> H, ret |-> ptr]

\* malloc from "Mark block as allocated" on: bsz is block->size
MallocMark(H, block, bsz) ==
    Ret([H EXCEPT !.mem[block].is_free = FALSE,
                  !.mem[block].magic = BLOCK_MAGIC_ALLOCATED,
                  !.stats.used_memory = @ + bsz,
                  !.stats.free_memory = @ - bsz,
                  !.stats.allocated_blocks = @ + 1,
                  !.stats.free_blocks = @ - 1],
        block + HeaderSize)

MallocGrant(H, block) == MallocMark(H, block, Load(H.mem, block).size)

\* the same with a split as soon as the excess reaches a header and 8 bytes
MallocFound_splitatleast(H, size, block) ==
    IF block = -1 THEN Ret(Trap(H, "hang"), NULL)
    ELSE IF block = NULL THEN Ret(H, NULL)
    ELSE MallocGrant(IF Load(H.mem, block).size
                          >= (size + HeaderSize + 8) % SizeMod
                     THEN split_block(H, block, size)
                     ELSE H,
                     block)

\* malloc from the result of find_free_block on: size is the aligned size
MallocFound(H, size, block) ==
    IF block = -1 THEN Ret(Trap(H, "hang"), NULL)
    ELSE IF block = NULL THEN Ret(H, NULL)
    ELSE MallocGrant(IF Load(H.mem, block).size
                          > (size + HeaderSize + 8) % SizeMod
                     THEN split_block(H, block, size)
                     ELSE H,
                     block)

\* the same without the test for a size of zero
malloc_nozerotest(H, size) ==
    IF ~H.init THEN Ret(H, NULL)
    ELSE MallocFound(H, ALIGN_UP(size), find_free_block(H, ALIGN_UP(size)))

malloc(H, size) ==
    IF ~H.init THEN Ret(H, NULL)
    ELSE IF size = 0 THEN Ret(H, NULL)
    ELSE MallocFound(H, ALIGN_UP(size), find_free_block(H, ALIGN_UP(size)))

\* free from "Mark as free" up to the call of coalesce_blocks
FreeMark(H, block, bsz) ==
    [H EXCEPT !.mem[block].is_free = TRUE,
              !.mem[block].magic = BLOCK_MAGIC_FREE,
              !.stats.used_memory = @ - bsz,
              !.stats.free_memory = @ + bsz,
              !.stats.allocated_blocks = @ - 1,
              !.stats.free_blocks = @ + 1]

\* the same without the count of the blocks that failed validation
free_nocount(H, ptr) ==
    IF ptr = NULL \/ ~H.init THEN H
    ELSE IF ~validate_block(H, ptr - HeaderSize) THEN H
    ELSE coalesce_blocks(FreeMark(H, ptr - HeaderSize,
                                  Load(H.mem, ptr - HeaderSize).size),
                         ptr - HeaderSize)

free(H, ptr) ==
    IF ptr = NULL \/ ~H.init THEN H
    ELSE IF ~validate_block(H, ptr - HeaderSize)
         THEN [H EXCEPT !.stats.corrupted_blocks = @ + 1]
    ELSE coalesce_blocks(FreeMark(H, ptr - HeaderSize,
                                  Load(H.mem, ptr - HeaderSize).size),
                         ptr - HeaderSize)

\* len bytes as written to the block at from
Bytes(from, len) == [from |-> from, len |-> len]

\* the first n bytes of the payload at src, as far as they are known
Prefix(data, src, n) ==
    IF src \in DOMAIN data
    THEN Bytes(data[src].from, IF n < data[src].len THEN n ELSE data[src].len)
    ELSE Bytes(src, 0)

\* memset(ptr, 0, n) as the headers in memory see it: a header wholly inside
\* the range reads as zero, one that the range cuts keeps the fields past
\* the cut (size at offset 0, is_free 4, next 8, prev 16, magic 24)
ZeroCut(h, c) ==
    [size |-> IF c >= 4 THEN 0 ELSE h.size,
     is_free |-> IF c >= 5 THEN FALSE ELSE h.is_free,
     next |-> IF c >= 12 THEN NULL ELSE h.next,
     prev |-> IF c >= 20 THEN NULL ELSE h.prev,
     magic |-> IF c >= 28 THEN MagicZero ELSE h.magic]

\* a fill the model cannot follow: past the end of the arena, or cutting a
\* field of a header in two
WildFill(H, ptr, n) ==
    \/ ptr + n > H.end
    \/ \E x \in DOMAIN H.mem : x < ptr /\ x + HeaderSize > ptr /\ n > 0
    \/ \E x \in DOMAIN H.mem :
          x >= ptr /\ x < ptr + n /\ (ptr + n - x) % 4 # 0
          /\ ptr + n - x < HeaderSize

memset0(H, ptr, n) ==
    [H EXCEPT !.mem = [x \in DOMAIN @ |->
                         IF x >= ptr /\ x < ptr + n
                         THEN ZeroCut(@[x], ptr + n - x)
                         ELSE @[x]],
              !.data = Store(@, ptr, Bytes(NULL, n)),
              !.trap = IF @ = "none" /\ WildFill(H, ptr, n)
                       THEN "wild" ELSE @]

\* a copy the model cannot follow: it ends or begins inside a header, whose
\* fields are then partly the caller's bytes
TornCopy(H, dest, n) ==
    \E x \in DOMAIN H.mem :
       /\ x + HeaderSize > dest /\ x < dest + n
       /\ ~(x >= dest /\ x + HeaderSize <= dest + n)

\* memcpy(dest, src, n) as the headers in memory see it: a header wholly
\* inside the destination becomes the header at the same offset of the
\* source, or user data
memcpy(H, dest, src, n) ==
    IF dest = src \/ n = 0 THEN H
    ELSE IF dest < src + n /\ src < dest + n
         THEN Trap(H, "wild")
         ELSE [H EXCEPT !.mem =
                 [x \in DOMAIN @ |->
                    IF x + HeaderSize > dest /\ x < dest + n
                    THEN IF x >= dest /\ x + HeaderSize <= dest + n
                            /\ (x - dest + src) \in DOMAIN @
                         THEN @[x - dest + src]
                         ELSE DataHeader
                    ELSE @[x]],
                        !.data = Store(@, dest, Prefix(@, src, n)),
                        !.trap = IF @ = "none" /\ TornCopy(H, dest, n)
                                 THEN "wild" ELSE @]

\* calloc after its malloc: r is malloc's result
CallocFill(r, total_size) ==
    IF r.ret # NULL
    THEN Ret(memset0(r.H, r.ret, total_size), r.ret)
    ELSE r

calloc(H, num, size) ==
    CallocFill(malloc(H, (num * size) % SizeMod), (num * size) % SizeMod)

\* the same with the old block freed whether or not malloc gave a new one
ReallocMove_freefirst(r, ptr) ==
    IF r.ret = NULL THEN Ret(free(r.H, ptr), NULL)
    ELSE Ret(free(memcpy(r.H, r.ret, ptr,
                         Load(r.H.mem, ptr - HeaderSize).size),
                  ptr),
             r.ret)

\* realloc after "Allocate new block": r is malloc's result
ReallocMove(r, ptr) ==
    IF r.ret = NULL THEN Ret(r.H, NULL)
    ELSE Ret(free(memcpy(r.H, r.ret, ptr,
                         Load(r.H.mem, ptr - HeaderSize).size),
                  ptr),
             r.ret)

\* the same with the excess of a block that is large enough given back
realloc_shrink(H, ptr, size) ==
    IF ptr = NULL THEN malloc(H, size)
    ELSE IF size = 0 THEN Ret(free(H, ptr), NULL)
    ELSE IF ~validate_block(H, ptr - HeaderSize) THEN Ret(H, NULL)
    ELSE IF size <= Load(H.mem, ptr - HeaderSize).size
         THEN Ret(split_block(H, ptr - HeaderSize, ALIGN_UP(size)), ptr)
    ELSE ReallocMove(malloc(H, size), ptr)

realloc(H, ptr, size) ==
    IF ptr = NULL THEN malloc(H, size)
    ELSE IF size = 0 THEN Ret(free(H, ptr), NULL)
    ELSE IF ~validate_block(H, ptr - HeaderSize) THEN Ret(H, NULL)
    ELSE IF size <= Load(H.mem, ptr - HeaderSize).size THEN Ret(H, ptr)
    ELSE ReallocMove(malloc(H, size), ptr)

\* the sum of the sizes of the blocks at the positions S of list l
RECURSIVE SumSizes(_, _, _)
SumSizes(mem, l, S) ==
    IF S = {} THEN 0
    ELSE mem[l[Lowest(S)]].size + SumSizes(mem, l, S \ {Lowest(S)})

\* display_memory_info's walk: l is the list, fr and al the positions of
\* the valid free and the valid allocated blocks
DisplayScan(H, l, fr, al) ==
    [H EXCEPT !.stats.total_memory = HEAP_SIZE,
              !.stats.free_blocks = Cardinality(fr),
              !.stats.allocated_blocks = Cardinality(al),
              !.stats.free_memory = SumSizes(H.mem, l, fr),
              !.stats.used_memory = SumSizes(H.mem, l, al)]

ValidAt(H, l, is_free) ==
    {i \in 1..Len(l) :
       validate_block(H, l[i]) /\ H.mem[l[i]].is_free = is_free}

display_memory_info(H) ==
    IF ~H.init THEN H
    ELSE IF Cyclic(H) THEN Trap(H, "hang")
    ELSE DisplayScan(H, BlockList(H), ValidAt(H, BlockList(H), TRUE),
                     ValidAt(H, BlockList(H), FALSE))

\* ------------------------------------------------------- scheduler state
\* The process manager's globals, the descriptor table and the allocator
\* they call, as one record K, so that the C functions are operators:
\*   procs  processes[]: slot -> descriptor     list   process_list
\*   cur    current_process                     rq     ready_queue
\*   next_pid, count (process_count), init (process_manager_initialized)
\*   stats  process_stats (total, active, context_switches)
\*   time   get_system_time's time_counter      H      the heap
\*   trap   "none" or "hang" (a queue walk that never ends)
\* Left out of a descriptor: name, entry point, stack pointer, registers,
\* parent, is_demon, cpu_time and creation_time, which no decision reads,
\* and heap_start, which is never set to anything but 0.
Slots == 1..MAX_PROCESSES

PRIORITY_OVERLORD == 0
PRIORITY_DEMON == 1
PRIORITY_SOUL == 2
PRIORITY_DAMNED == 3

\* a descriptor of the zero-initialised table (READY is enumerator 0)
ZeroProcess ==
    [pid |-> 0, state |-> "READY", priority |-> 0, is_suspended |-> FALSE,
     stack_base |-> 0, last_scheduled |-> 0, time_slice |-> 0,
     next |-> NULL, prev |-> NULL]

KernelStatic(H) ==
    [procs |-> [i \in Slots |-> ZeroProcess],
     list |-> NULL, cur |-> NULL, rq |-> NULL,
     next_pid |-> 1, count |-> 0, init |-> FALSE,
     stats |-> [total_processes |-> 0, active_processes |-> 0,
                context_switches |-> 0],
     time |-> 0, H |-> H, trap |-> "none"]

TimeSlice(priority) ==
    IF priority = PRIORITY_OVERLORD THEN 100
    ELSE IF priority = PRIORITY_DEMON THEN 50
    ELSE IF priority = PRIORITY_SOUL THEN 25
    ELSE 10

\* find_process_by_pid: the first slot that holds pid, NULL if none
find_process_by_pid(K, pid) ==
    IF \E i \in Slots : K.procs[i].pid = pid
    THEN Lowest({i \in Slots : K.procs[i].pid = pid})
    ELSE NULL

\* add_to_ready_queue's walk from current: the descriptor the loop stops
\* at, -1 if it never stops
RECURSIVE InsertionPoint(_, _, _, _)
InsertionPoint(procs, current, priority, fuel) ==
    IF fuel = 0 THEN -1
    ELSE IF procs[current].next # NULL
            /\ procs[procs[current].next].priority <= priority
         THEN InsertionPoint(procs, procs[current].next, priority, fuel - 1)
         ELSE current

\* add_to_ready_queue's else branch: at is where the walk stopped
InsertAfter(K, process, at) ==
    IF at = -1 THEN [K EXCEPT !.trap = "hang"]
    ELSE [K EXCEPT !.procs = [[@ EXCEPT ![process].next = K.procs[at].next]
                                EXCEPT ![at].next = process]]

add_to_ready_queue(K, process) ==
    IF process = NULL \/ K.procs[process].state # "READY" THEN K
    ELSE IF K.rq = NULL
            \/ K.procs[process].priority < K.procs[K.rq].priority
         THEN [K EXCEPT !.procs[process].next = K.rq, !.rq = process]
         ELSE InsertAfter(K, process,
                          InsertionPoint(K.procs, K.rq,
                                         K.procs[process].priority,
                                         MAX_PROCESSES + 1))

\* remove_from_ready_queue's walk from current: the descriptor the loop
\* stops at, -1 if it never stops
RECURSIVE Predecessor(_, _, _, _)
Predecessor(procs, current, process, fuel) ==
    IF fuel = 0 THEN -1
    ELSE IF procs[current].next # NULL /\ procs[current].next # process
         THEN Predecessor(procs, procs[current].next, process, fuel - 1)
         ELSE current

\* remove_from_ready_queue's else branch: at is where the walk stopped
Unlink(K, process, at) ==
    IF at = -1 THEN [K EXCEPT !.trap = "hang"]
    ELSE [K EXCEPT !.procs =
            [(IF K.procs[at].next # NULL
              THEN [@ EXCEPT ![at].next = K.procs[process].next]
              ELSE @)
               EXCEPT ![process].next = NULL]]

remove_from_ready_queue(K, process) ==
    IF process = NULL \/ K.rq = NULL THEN K
    ELSE IF K.rq = process
         THEN [K EXCEPT !.rq = K.procs[process].next,
                        !.procs[process].next = NULL]
         ELSE Unlink(K, process,
                     Predecessor(K.procs, K.rq, process, MAX_PROCESSES + 1))

\* save_process_context: two calls of get_system_time
save_process_context(K, process) ==
    IF process = NULL THEN K ELSE [K EXCEPT !.time = @ + 2]

\* the same without the demotion of the outgoing process
RequeueKeepRunning(K) == add_to_ready_queue(K, K.cur)

\* schedule_next_process, "If current process is still ready" block
Requeue(K) ==
    IF K.procs[K.cur].state = "RUNNING"
    THEN add_to_ready_queue([K EXCEPT !.procs[K.cur].state = "READY"], K.cur)
    ELSE K

\* schedule_next_process from "Switch to next process" on
SwitchTo(K, next_process) ==
    IF K.trap # "none" THEN K
    ELSE [K EXCEPT !.cur = next_process,
                   !.procs[next_process].state = "RUNNING",
                   !.procs[next_process].last_scheduled = K.time + 1,
                   !.time = @ + 1,
                   !.stats.context_switches = @ + 1]

\* schedule_next_process after the pop of next_process
ContextSwitch(K, next_process) ==
    SwitchTo(IF K.cur # NULL /\ K.cur # next_process
             THEN Requeue(save_process_context(K, K.cur))
             ELSE K,
             next_process)

schedule_next_process(K) ==
    IF K.rq = NULL THEN K
    ELSE ContextSwitch([K EXCEPT !.rq = K.procs[K.rq].next,
                                 !.procs[K.rq].next = NULL],
                       K.rq)

\* a call's result: the kernel state after it and the value returned
KRet(K, ret) == [K |-> K, ret |-> ret]

\* get_system_time, for its effect on the counter
get_system_time(K) == [K EXCEPT !.time = @ + 1]

\* create_process from "Update statistics" on
CreateDone(K, process) ==
    IF K.trap # "none" THEN KRet(K, NULL)
    ELSE KRet(get_system_time(
                [K EXCEPT !.count = @ + 1,
                          !.stats.total_processes = @ + 1,
                          !.stats.active_processes = @ + 1]),
              process)

\* create_process, "Add to process list"
LinkProcess(K, process) ==
    [K EXCEPT !.procs = [[@ EXCEPT ![process].next = K.list,
                                   ![process].prev = NULL]
                           EXCEPT ![IF K.list # NULL THEN K.list
                                    ELSE process].prev =
                                      IF K.list # NULL THEN process ELSE NULL],
              !.list = process]

\* the same with the slot kept when malloc has failed
CreateStack_keepslot(K, process, r) ==
    IF r.ret = NULL
    THEN KRet([K EXCEPT !.H = r.H,
                        !.procs[process].stack_base = 0], NULL)
    ELSE CreateDone(
           add_to_ready_queue(
             LinkProcess([K EXCEPT !.H = r.H,
                                   !.procs[process].stack_base = r.ret,
                                   !.procs[process].last_scheduled = 0,
                                   !.procs[process].time_slice =
                                       TimeSlice(K.procs[process].priority)],
                         process),
             process),
           process)

\* create_process from "Set up memory" on: r is what malloc returned
CreateStack(K, process, r) ==
    IF r.ret = NULL
    THEN KRet([K EXCEPT !.H = r.H,
                        !.procs[process].stack_base = 0,
                        !.procs[process].pid = 0], NULL)
    ELSE CreateDone(
           add_to_ready_queue(
             LinkProcess([K EXCEPT !.H = r.H,
                                   !.procs[process].stack_base = r.ret,
                                   !.procs[process].last_scheduled = 0,
                                   !.procs[process].time_slice =
                                       TimeSlice(K.procs[process].priority)],
                         process),
             process),
           process)

\* create_process from "Initialize process" on: process is the free slot
CreateAt(K, process, priority) ==
    IF process = NULL THEN KRet(K, NULL)
    ELSE CreateStack([K EXCEPT !.procs[process].pid = K.next_pid,
                               !.procs[process].state = "READY",
                               !.procs[process].priority = priority,
                               !.procs[process].is_suspended = FALSE,
                               !.next_pid = (@ + 1) % PidMod],
                     process, malloc(K.H, STACK_SIZE))

\* the same with the table taken for full one process early
create_process_onefewer(K, priority) ==
    IF ~K.init \/ K.count >= MAX_PROCESSES - 1 THEN KRet(K, NULL)
    ELSE CreateAt(K, find_process_by_pid(K, 0), priority)

create_process(K, priority) ==
    IF ~K.init \/ K.count >= MAX_PROCESSES THEN KRet(K, NULL)
    ELSE CreateAt(K, find_process_by_pid(K, 0), priority)

\* init_process_manager after the call of create_process, which returned r
InitKernel(r) ==
    [(IF r.ret # NULL
      THEN [r.K EXCEPT !.procs[r.ret].pid = 0,
                       !.procs[r.ret].state = "RUNNING",
                       !.cur = r.ret]
      ELSE r.K)
       EXCEPT !.stats = [total_processes |-> 1, active_processes |-> 1,
                         context_switches |-> 0],
              !.init = TRUE]

init_process_manager(K) ==
    InitKernel(
      create_process(
        [K EXCEPT !.procs = [i \in Slots |->
                               [@[i] EXCEPT !.pid = 0,
                                            !.state = "TERMINATED",
                                            !.next = NULL,
                                            !.prev = NULL]]],
        PRIORITY_OVERLORD))

\* terminate_process, "Clean up process entry"
TerminateClean(K, process) ==
    IF K.trap # "none" THEN K
    ELSE [K EXCEPT !.procs[process].pid = 0, !.count = @ - 1]

\* terminate_process from "Free memory" on
TerminateFree(K, process) ==
    IF K.trap # "none" THEN K
    ELSE TerminateClean(
           IF process = K.cur
           THEN schedule_next_process(
                  [K EXCEPT !.H = free(@, K.procs[process].stack_base),
                            !.procs[process].stack_base = 0,
                            !.stats.active_processes = @ - 1])
           ELSE [K EXCEPT !.H = free(@, K.procs[process].stack_base),
                          !.procs[process].stack_base = 0,
                          !.stats.active_processes = @ - 1],
           process)

\* the same without the test for the kernel's pid
TerminateAt_anypid(K, process) ==
    IF process = NULL THEN K
    ELSE IF K.procs[process].state = "TERMINATED"
         THEN K
         ELSE TerminateFree(
                remove_from_ready_queue(
                  [K EXCEPT !.procs[process].state = "TERMINATED"], process),
                process)

\* terminate_process after the lookup
TerminateAt(K, process) ==
    IF process = NULL THEN K
    ELSE IF K.procs[process].state = "TERMINATED" \/ K.procs[process].pid = 0
         THEN K
         ELSE TerminateFree(
                remove_from_ready_queue(
                  [K EXCEPT !.procs[process].state = "TERMINATED"], process),
                process)

terminate_process(K, pid) == TerminateAt(K, find_process_by_pid(K, pid))

yield_process(K) ==
    IF K.cur # NULL
    THEN schedule_next_process([K EXCEPT !.procs[K.cur].state = "READY"])
    ELSE K

\* suspend_process after remove_from_ready_queue
SuspendSched(K, process) ==
    IF K.trap # "none" THEN K
    ELSE IF process = K.cur THEN schedule_next_process(K) ELSE K

\* suspend_process after the lookup
SuspendAt(K, process) ==
    IF process # NULL /\ K.procs[process].state = "RUNNING"
    THEN SuspendSched(
           remove_from_ready_queue(
             [K EXCEPT !.procs[process].is_suspended = TRUE,
                       !.procs[process].state = "WAITING"], process),
           process)
    ELSE K

suspend_process(K, pid) == SuspendAt(K, find_process_by_pid(K, pid))

\* the same with the resumed process made RUNNING at once
ResumeAt_running(K, process) ==
    IF process # NULL /\ K.procs[process].is_suspended
    THEN add_to_ready_queue(
           [K EXCEPT !.procs[process].is_suspended = FALSE,
                     !.procs[process].state = "RUNNING"], process)
    ELSE K

\* resume_process after the lookup
ResumeAt(K, process) ==
    IF process # NULL /\ K.procs[process].is_suspended
    THEN add_to_ready_queue(
           [K EXCEPT !.procs[process].is_suspended = FALSE,
                     !.procs[process].state = "READY"], process)
    ELSE K

resume_process(K, pid) == ResumeAt(K, find_process_by_pid(K, pid))

\* the same with the slice taken for used up one unit of time early
SliceCheck_early(K) ==
    IF K.time + 1 - K.procs[K.cur].last_scheduled >= K.procs[K.cur].time_slice
       /\ K.procs[K.cur].state = "RUNNING"
    THEN schedule_next_process([K EXCEPT !.procs[K.cur].state = "READY"])
    ELSE K

\* process_scheduler after the call of get_system_time
SliceCheck(K) ==
    IF K.time - K.procs[K.cur].last_scheduled >= K.procs[K.cur].time_slice
       /\ K.procs[K.cur].state = "RUNNING"
    THEN schedule_next_process([K EXCEPT !.procs[K.cur].state = "READY"])
    ELSE K

process_scheduler(K) ==
    IF ~K.init \/ K.cur = NULL THEN K
    ELSE SliceCheck(get_system_time(K))

\* ------------------------------------------------------ interrupt system
\* The interrupt system as a record I:
\*   init     interrupts_initialized       ticks  interrupt_stats.timer_ticks
\*   mask     the interrupt mask register of the master PIC (port 0x21): a
\*            line whose bit is set is not delivered
\*   enabled  the interrupt flag of the CPU (sti sets it, cli clears it)
\*   pending  the timer has raised its line and was not served yet
\*   in_op    whose function is under way: "allocator", "process manager",
\*            or "none" between two calls
IrqStatic ==
    [init |-> FALSE, ticks |-> 0, mask |-> 0, enabled |-> FALSE,
     pending |-> FALSE, in_op |-> "none"]

\* the timer is line 0 of the master PIC
TimerMasked(I) == I.mask % 2 = 1

\* the same with the timer's line left open (mask 0xFA)
init_pic_timer(I) == [I EXCEPT !.mask = 250]

\* init_pic: the last write to port 0x21 is the mask 0xFB
init_pic(I) == [I EXCEPT !.mask = 251]

\* init_interrupt_system: the handlers, the PIC, the IDT
init_interrupt_system(I) == [init_pic(I) EXCEPT !.init = TRUE]

\* timer_interrupt_handler counts the tick; it calls nothing of the process
\* manager or of the allocator
timer_interrupt_handler(I) == [I EXCEPT !.ticks = @ + 1]

\* the CPU serves the timer's line when it is raised, not masked in the
\* PIC, and the interrupt flag is set
Serve(I) ==
    IF I.pending /\ I.enabled /\ ~TimerMasked(I)
    THEN timer_interrupt_handler([I EXCEPT !.pending = FALSE])
    ELSE I

enable_interrupts(I) == Serve([I EXCEPT !.enabled = TRUE])
disable_interrupts(I) == [I EXCEPT !.enabled = FALSE]

\* ------------------------------------------------------------- variables
\* heap     the allocator's globals and the arena's headers (see above)
\* live     the handles returned and not passed to free since
\* stale    freed handles the caller still holds (what a double free or a
\*          use after free passes)
\* misuse   how often free or realloc got a stale handle, or
\*          init_memory_manager was called again
\* last     the last call: its name, arguments and result
\* irq      the interrupt system: its globals, the interrupt flag of the
\*          CPU, the mask register of the master PIC, and the operation of
\*          the allocator or the process manager that is under way
VARIABLES heap, live, stale, misuse, last, sched, irq

vars == <<heap, live, stale, misuse, last, sched, irq>>

Call(op, a, b, ret) == [op |-> op, a |-> a, b |-> b, ret |-> ret]

\* request sizes: zero and the sizes of the example of the specification
SizeInputs == {0, 50, 100, 200}
FewSizes == {100, 200}
ReallocSizes == {0, 50, 200}
\* count and element size: a product that fits, and one that wraps to 50
CallocInputs == {<<2, 50>>, <<2, SizeMod \div 2 + 25>>}
\* a pointer that is no handle: below the arena
BadPtr == HEAP_START - 8

\* the process manager's part of the kernel state: K without the heap
SchedOf(K) ==
    [procs |-> K.procs, list |-> K.list, cur |-> K.cur, rq |-> K.rq,
     next_pid |-> K.next_pid, count |-> K.count, init |-> K.init,
     stats |-> K.stats, time |-> K.time, trap |-> K.trap]
SchedStatic == SchedOf(KernelStatic(HeapStatic))
Kernel(s, H) ==
    [procs |-> s.procs, list |-> s.list, cur |-> s.cur, rq |-> s.rq,
     next_pid |-> s.next_pid, count |-> s.count, init |-> s.init,
     stats |-> s.stats, time |-> s.time, H |-> H, trap |-> s.trap]

\* arguments of the calls that take a pid: 0, the pids of the table, and a
\* pid that no process has
Pids == {0, sched.next_pid} \cup {sched.procs[i].pid : i \in Slots}
\* priorities of the processes created
Priorities == {PRIORITY_OVERLORD, PRIORITY_DAMNED}

\* The headers the code can still reach: those of the block list, those of
\* the handles a caller holds, and whatever their next and prev lead to.
\* The rest of memory is never read again and is left out of the state.
RECURSIVE Closure(_, _)
Closure(mem, S) ==
    LET T == S \cup {mem[x].next : x \in S} \cup {mem[x].prev : x \in S}
        U == T \cap DOMAIN mem
    IN  IF U = S THEN S ELSE Closure(mem, U)

Reachable(H, ptrs) ==
    Closure(H.mem, ({H.start} \cup {p - HeaderSize : p \in ptrs})
                     \cap DOMAIN H.mem)

Prune(H, ptrs) ==
    [H EXCEPT !.mem = [x \in Reachable(H, ptrs) |-> H.mem[x]]]

Init ==
    /\ heap = HeapStatic
    /\ live = {}
    /\ stale = {}
    /\ misuse = 0
    /\ last = Call("boot", 0, 0, 0)
    /\ sched = SchedStatic
    /\ irq = IrqStatic

\* no call is made after a trap, nor after the last misuse the bound allows
Running == heap.trap = "none" /\ misuse < MaxMisuse

\* how far into the arena the last block of the list starts
Extent(H) == BlockList(H)[Len(BlockList(H))] - H.start

Room ==
    /\ Len(BlockList(heap)) <= MaxBlocks
    /\ heap.init => Extent(heap) <= MaxExtent

\* the caller's handles after a call that returned ptr (NULL: none)
Gained(S, ptr) == IF ptr = NULL THEN S ELSE S \cup {ptr}
Lost(S, ptr) == S \ {ptr}

\* between two calls the payloads belong to the caller: at the start of a
\* call the bytes of every block it holds are named after the block, and it
\* no longer reads the blocks it has freed
Fill(H, lv) == [H EXCEPT !.data = [p \in lv |-> Bytes(p, SIZE_MAX)]]

\* the heap, the handles and the record of the call after a call
CommitHeap(H, lv, st, ms, call) ==
    /\ heap' = Fill(Prune(H, lv \cup st), lv)
    /\ live' = lv
    /\ stale' = st
    /\ misuse' = ms
    /\ last' = call
    /\ UNCHANGED sched

\* the same for a call made as a whole, between two interrupts
Commit(H, lv, st, ms, call) ==
    /\ CommitHeap(H, lv, st, ms, call)
    /\ UNCHANGED irq

\* kernel_main's call
InitMemoryManager ==
    /\ Running
    /\ ~heap.init
    /\ Commit(init_memory_manager(heap), live, stale, misuse,
              Call("init_memory_manager", 0, 0, 0))

\* a later call
ReinitMemoryManager ==
    /\ Running
    /\ heap.init
    /\ Commit(init_memory_manager(heap), live, stale, misuse + 1,
              Call("init_memory_manager", 1, 0, 0))

\* the caller's side of a call that returned r: the handle is live
Granted(r, call) ==
    Commit(r.H, Gained(live, r.ret), Lost(stale, r.ret), misuse, call)

MallocDone(r, size) ==
    /\ Running /\ Room
    /\ Granted(r, Call("malloc", size, 0, r.ret))

Malloc ==
    \E size \in SizeInputs : MallocDone(malloc(heap, size), size)

\* malloc with the two larger sizes of the example only
MallocFew ==
    \E size \in FewSizes : MallocDone(malloc(heap, size), size)

\* free of a live handle or of NULL
Free ==
    \E ptr \in live \cup {NULL} :
        /\ Running
        /\ Commit(free(heap, ptr), Lost(live, ptr), stale, misuse,
                  Call("free", ptr, 0, 0))

\* pointers that are no handles: one below the arena, one whose header
\* would start at the end of the arena, and one into the payload of each
\* live block, where no header is
InvalidPtrs(H, lv) ==
    {BadPtr, H.end + HeaderSize} \cup {p + 8 : p \in lv}

\* free of a pointer that is no handle
FreeInvalid ==
    \E ptr \in InvalidPtrs(heap, live) :
        /\ Running
        /\ heap.stats.corrupted_blocks < MaxCorrupted
        /\ Commit(free(heap, ptr), live, stale, misuse,
                  Call("free", ptr, 0, 0))

CallocDone(r, num, size) ==
    /\ Running /\ Room
    /\ Granted(r, Call("calloc", num, size, r.ret))

Calloc ==
    \E in \in CallocInputs : CallocDone(calloc(heap, in[1], in[2]), in[1], in[2])

\* the old handle is gone when realloc freed it
ReallocDone(r, ptr, size, ms) ==
    /\ Running /\ Room
    /\ Commit(r.H,
              Gained(IF size = 0 \/ (r.ret # NULL /\ r.ret # ptr)
                     THEN Lost(live, ptr) ELSE live, r.ret),
              Lost(stale, r.ret), ms,
              Call("realloc", ptr, size, r.ret))

\* realloc of a live handle or of NULL
Realloc ==
    \E ptr \in live \cup {NULL}, size \in ReallocSizes :
        ReallocDone(realloc(heap, ptr, size), ptr, size, misuse)

DisplayMemoryInfo ==
    /\ Running
    /\ Commit(display_memory_info(heap), live, stale, misuse,
              Call("display_memory_info", 0, 0, 0))

\* free of a live handle that the caller keeps a copy of
FreeKeep ==
    \E ptr \in live :
        /\ Running
        /\ Cardinality(stale) < MaxStale
        /\ Commit(free(heap, ptr), Lost(live, ptr), stale \cup {ptr}, misuse,
                  Call("free", ptr, 0, 0))

\* free of a handle that was freed before
DoubleFree ==
    \E ptr \in stale :
        /\ Running
        /\ Commit(free(heap, ptr), live, stale, misuse + 1,
                  Call("free", ptr, 1, 0))

\* realloc of a handle that was freed before
ReallocStale ==
    \E ptr \in stale, size \in ReallocSizes :
        ReallocDone(realloc(heap, ptr, size), ptr, size, misuse + 1)

\* the capacities of the free blocks of the list
FreeSizes(H) ==
    {H.mem[BlockList(H)[i]].size :
       i \in {j \in 1..Len(BlockList(H)) : H.mem[BlockList(H)[j]].is_free}}

\* the capacity of the largest free block of the list, -1 if none is free
LargestFree(H) == IF FreeSizes(H) = {} THEN -1 ELSE Highest(FreeSizes(H))

\* request sizes at the ends of the range: the greatest size_t and the
\* least size that no multiple of 8 in the range is at or above, the
\* greatest multiple of 8, the size of the arena, and the capacity of the
\* largest free block and one byte more
EdgeSizes(H) ==
    {SIZE_MAX, SIZE_MAX - 6, SIZE_MAX - 7, HEAP_SIZE,
     LargestFree(H), LargestFree(H) + 1} \ {-1}

MallocEdge ==
    \E size \in EdgeSizes(heap) : MallocDone(malloc(heap, size), size)

\* a caller that takes all of the largest free block
MallocLargest ==
    \E size \in {LargestFree(heap)} \ {-1} :
        /\ Running
        /\ Len(BlockList(heap)) <= MaxBlocks
        /\ Granted(malloc(heap, size), Call("malloc", size, 0,
                                            malloc(heap, size).ret))

\* new sizes at the ends of the range: the size of the arena, one byte
\* more than the largest free block holds, and the greatest size_t
GrowSizes(H) == {HEAP_SIZE, LargestFree(H) + 1, SIZE_MAX}

\* realloc of a live handle to a size no block can hold
ReallocEdge ==
    \E ptr \in live, size \in GrowSizes(heap) :
        ReallocDone(realloc(heap, ptr, size), ptr, size, misuse)

\* ------------------------------------------------- process manager calls
\* the stacks the descriptors point to
Stacks(K) == {K.procs[i].stack_base : i \in Slots} \ {0}

\* no call is made after a trap, nor once the time is up
Alive == heap.trap = "none" /\ sched.trap = "none" /\ sched.time < MaxTime

\* last_scheduled is read of the current process only, and written when a
\* process becomes current: that of the others is left out of the state
Forget(K) ==
    [K EXCEPT !.procs = [i \in Slots |->
                           IF i = K.cur THEN @[i]
                           ELSE [@[i] EXCEPT !.last_scheduled = 0]]]

\* the process manager's state after a call that left the kernel as K
After(K) == SchedOf(Forget(K))

\* the state after a process manager call
SettleSched(K) ==
    /\ K.stats.context_switches <= MaxSwitches
    /\ sched' = After(K)
    /\ heap' = IF K.H = heap THEN heap ELSE Prune(K.H, Stacks(K))
    /\ UNCHANGED <<live, stale, misuse, last>>

\* the same for a call made as a whole, between two interrupts
Settle(K) ==
    /\ SettleSched(K)
    /\ UNCHANGED irq

\* kernel_main's call, after init_memory_manager
InitProcessManager ==
    /\ Alive
    /\ heap.init
    /\ ~sched.init
    /\ Settle(init_process_manager(Kernel(sched, heap)))

CreateProcess ==
    \E priority \in Priorities :
        /\ Alive
        /\ sched.next_pid <= MaxPid
        /\ Settle(create_process(Kernel(sched, heap), priority).K)

\* a creation after a termination, when a released slot is there to reuse
CreateProcessAgain ==
    \E priority \in Priorities :
        /\ Alive
        /\ sched.count < sched.next_pid - 1
        /\ sched.next_pid <= MaxPid + MaxReuse
        /\ Settle(create_process(Kernel(sched, heap), priority).K)

TerminateProcess ==
    \E pid \in Pids :
        /\ Alive
        /\ Settle(terminate_process(Kernel(sched, heap), pid))

\* callers that create and terminate processes until the pid counter has
\* gone round: no call is made after a trap, nor once the time, which each
\* creation moves by one, is past the range of the counter
AliveLong ==
    heap.trap = "none" /\ sched.trap = "none" /\ sched.time <= PidMod

CreateProcessLong ==
    \E priority \in Priorities :
        /\ AliveLong
        /\ Settle(create_process(Kernel(sched, heap), priority).K)

TerminateProcessLong ==
    \E pid \in Pids :
        /\ AliveLong
        /\ Settle(terminate_process(Kernel(sched, heap), pid))

ScheduleNextProcess ==
    /\ Alive
    /\ Settle(schedule_next_process(Kernel(sched, heap)))

YieldProcess ==
    /\ Alive
    /\ Settle(yield_process(Kernel(sched, heap)))

SuspendProcess ==
    \E pid \in Pids :
        /\ Alive
        /\ Settle(suspend_process(Kernel(sched, heap), pid))

ResumeProcess ==
    \E pid \in Pids :
        /\ Alive
        /\ Settle(resume_process(Kernel(sched, heap), pid))

\* the timer's call
ProcessScheduler ==
    /\ Alive
    /\ Settle(process_scheduler(Kernel(sched, heap)))

\* --------------------------------------------- calls and timer interleaved
\* the functions that change the block list (malloc, free) and those that
\* change the Ready Queue (create_process, terminate_process,
\* schedule_next_process, yield_process, suspend_process, resume_process)
Operations == {"allocator", "process manager"}

\* kernel_main's call, after init_memory_manager
InitInterruptSystem ==
    /\ heap.init /\ ~irq.init
    /\ irq' = init_interrupt_system(irq)
    /\ UNCHANGED <<heap, live, stale, misuse, last, sched>>

\* callers of enable_interrupts and disable_interrupts, between two calls
EnableInterrupts ==
    /\ irq.init /\ irq.in_op = "none" /\ ~irq.enabled
    /\ irq' = enable_interrupts(irq)
    /\ UNCHANGED <<heap, live, stale, misuse, last, sched>>

DisableInterrupts ==
    /\ irq.init /\ irq.in_op = "none" /\ irq.enabled
    /\ irq' = disable_interrupts(irq)
    /\ UNCHANGED <<heap, live, stale, misuse, last, sched>>

\* the hardware timer raises its line, at any time
TimerFires ==
    /\ irq.init /\ ~irq.pending
    /\ irq.ticks < MaxTicks
    /\ irq' = Serve([irq EXCEPT !.pending = TRUE])
    /\ UNCHANGED <<heap, live, stale, misuse, last, sched>>

\* a function of the allocator or of the process manager is entered: none
\* of them touches the interrupt flag or the PIC
Enter ==
    \E op \in Operations :
        /\ irq.init /\ sched.init /\ irq.in_op = "none"
        /\ Running /\ Alive
        /\ sched.time < MaxOpTime
        /\ irq' = [irq EXCEPT !.in_op = op]
        /\ UNCHANGED <<heap, live, stale, misuse, last, sched>>

\* the function under way, one of those of op, returns
Returns(op) ==
    /\ irq.in_op = op
    /\ irq' = [irq EXCEPT !.in_op = "none"]

MallocReturns ==
    \E size \in {100} :
        /\ Returns("allocator")
        /\ Room
        /\ CommitHeap(malloc(heap, size).H,
                      Gained(live, malloc(heap, size).ret),
                      Lost(stale, malloc(heap, size).ret), misuse,
                      Call("malloc", size, 0, malloc(heap, size).ret))

FreeReturns ==
    \E ptr \in live \cup {NULL} :
        /\ Returns("allocator")
        /\ CommitHeap(free(heap, ptr), Lost(live, ptr), stale, misuse,
                      Call("free", ptr, 0, 0))

CreateProcessReturns ==
    \E priority \in Priorities :
        /\ Returns("process manager")
        /\ sched.next_pid <= MaxPid
        /\ SettleSched(create_process(Kernel(sched, heap), priority).K)

TerminateProcessReturns ==
    \E pid \in Pids :
        /\ Returns("process manager")
        /\ SettleSched(terminate_process(Kernel(sched, heap), pid))

ScheduleNextProcessReturns ==
    /\ Returns("process manager")
    /\ SettleSched(schedule_next_process(Kernel(sched, heap)))

YieldProcessReturns ==
    /\ Returns("process manager")
    /\ SettleSched(yield_process(Kernel(sched, heap)))

SuspendProcessReturns ==
    \E pid \in Pids :
        /\ Returns("process manager")
        /\ SettleSched(suspend_process(Kernel(sched, heap), pid))

ResumeProcessReturns ==
    \E pid \in Pids :
        /\ Returns("process manager")
        /\ SettleSched(resume_process(Kernel(sched, heap), pid))

\* the allocator initialised once and called with the handles it gave out
NextAlloc ==
    \/ InitMemoryManager
    \/ Malloc
    \/ Free
    \/ Calloc
    \/ Realloc

SpecAlloc == Init /\ [][NextAlloc]_vars

\* callers that pass a handle again after freeing it
NextMisuse ==
    \/ InitMemoryManager
    \/ MallocFew
    \/ Free
    \/ FreeKeep
    \/ DoubleFree
    \/ ReallocStale

SpecMisuse == Init /\ [][NextMisuse]_vars

\* the allocator with init_memory_manager called again at any time, and
\* the statistics recomputed at any time
NextHeap ==
    \/ NextAlloc
    \/ FreeInvalid
    \/ ReinitMemoryManager
    \/ DisplayMemoryInfo

SpecHeap == Init /\ [][NextHeap]_vars

\* the allocator called with sizes at the ends of the range
NextEdge ==
    \/ InitMemoryManager
    \/ MallocFew
    \/ MallocEdge
    \/ Free

SpecEdge == Init /\ [][NextEdge]_vars

\* callers that pass free a pointer that is no handle
NextInvalid ==
    \/ InitMemoryManager
    \/ MallocFew
    \/ Free
    \/ FreeInvalid

SpecInvalid == Init /\ [][NextInvalid]_vars

\* callers that call init_memory_manager a second time
NextReinit ==
    \/ InitMemoryManager
    \/ MallocFew
    \/ Free
    \/ ReinitMemoryManager

SpecReinit == Init /\ [][NextReinit]_vars

\* callers that grow their blocks, also past what the arena holds
NextGrow ==
    \/ InitMemoryManager
    \/ MallocFew
    \/ Free
    \/ ReallocEdge

SpecGrow == Init /\ [][NextGrow]_vars

\* the kernel after boot: both managers initialised once, then the process
\* manager's calls in any order
NextProc ==
    \/ InitMemoryManager
    \/ InitProcessManager
    \/ CreateProcess
    \/ TerminateProcess
    \/ ScheduleNextProcess
    \/ YieldProcess
    \/ SuspendProcess
    \/ ResumeProcess
    \/ ProcessScheduler

SpecProc == Init /\ [][NextProc]_vars

\* the same with released slots taken into use again
NextReuse ==
    \/ InitMemoryManager
    \/ InitProcessManager
    \/ CreateProcess
    \/ CreateProcessAgain
    \/ TerminateProcess
    \/ ScheduleNextProcess
    \/ YieldProcess
    \/ SuspendProcess
    \/ ResumeProcess
    \/ ProcessScheduler

SpecReuse == Init /\ [][NextReuse]_vars

\* the kernel after boot, with a caller that takes the memory that is left
\* before a process is created
NextStack ==
    \/ InitMemoryManager
    \/ InitProcessManager
    \/ MallocLargest
    \/ Free
    \/ CreateProcess
    \/ TerminateProcess

SpecStack == Init /\ [][NextStack]_vars

\* the kernel after boot with the timer running: the calls of the allocator
\* and the process manager take time, and the timer raises its line at any
\* point of them
NextIrq ==
    \/ InitMemoryManager
    \/ InitInterruptSystem
    \/ InitProcessManager
    \/ EnableInterrupts
    \/ DisableInterrupts
    \/ TimerFires
    \/ Enter
    \/ MallocReturns
    \/ FreeReturns
    \/ CreateProcessReturns
    \/ TerminateProcessReturns
    \/ ScheduleNextProcessReturns
    \/ YieldProcessReturns
    \/ SuspendProcessReturns
    \/ ResumeProcessReturns

SpecIrq == Init /\ [][NextIrq]_vars

\* the kernel after boot, with processes created and terminated for as long
\* as it takes the pid counter to wrap
NextLong ==
    \/ InitMemoryManager
    \/ InitProcessManager
    \/ CreateProcessLong
    \/ TerminateProcessLong

SpecLong == Init /\ [][NextLong]_vars

\* processes are created and run, yield and are preempted by the timer; none
\* is terminated or suspended
NextPreempt ==
    \/ InitMemoryManager
    \/ InitProcessManager
    \/ CreateProcess
    \/ ScheduleNextProcess
    \/ YieldProcess
    \/ ProcessScheduler

SpecPreempt == Init /\ [][NextPreempt]_vars

\* ---------------------------------------------------------------- claims
RECURSIVE SumFootprint(_, _, _)
SumFootprint(mem, l, i) ==
    IF i = 0 THEN 0
    ELSE mem[l[i]].size + HeaderSize + SumFootprint(mem, l, i - 1)

SumOfBlocks(H) == SumFootprint(H.mem, BlockList(H), Len(BlockList(H)))

\* C1: after any sequence of malloc, free, calloc and realloc calls on an
\* initialised heap, the payload sizes of the blocks of the list plus one
\* header per block add up to the size of the arena.
C1_SumIsArena ==
    (heap.init /\ heap.trap = "none") => SumOfBlocks(heap) = HEAP_SIZE

NoAdjacentFree(H) ==
    LET l == BlockList(H)
    IN  \A i \in 1..(Len(l) - 1) :
            ~(H.mem[l[i]].is_free /\ H.mem[l[i + 1]].is_free)

\* C2: when a call of free has returned, no two blocks that are neighbours
\* in the list are both free.
C2_NoAdjacentFreeAfterFree ==
    (last.op = "free" /\ heap.trap = "none") => NoAdjacentFree(heap)

\* ------------------------------------------------------ scheduler claims
\* the descriptors linked from p on, as far as fuel goes
RECURSIVE QueueFrom(_, _, _)
QueueFrom(procs, p, fuel) ==
    IF p = NULL \/ fuel = 0 THEN <<>>
    ELSE <<p>> \o QueueFrom(procs, procs[p].next, fuel - 1)

ReadyQueue(s) == QueueFrom(s.procs, s.rq, MAX_PROCESSES + 1)

InReadyQueue(s, p) == \E i \in 1..Len(ReadyQueue(s)) : ReadyQueue(s)[i] = p

\* a descriptor that holds a process. init_process_manager creates no
\* kernel process (C4), so a pid of 0 marks a free slot
Live(s, p) == s.procs[p].pid # 0

\* C3: a live process is linked in the Ready Queue if and only if its state
\* is READY.
C3_QueuedIffReady ==
    sched.trap = "none" =>
        \A p \in Slots :
            Live(sched, p) =>
                (InReadyQueue(sched, p) <=> sched.procs[p].state = "READY")

\* some descriptor has pid 0 and is not TERMINATED
KernelPresent(s) ==
    \E p \in Slots : s.procs[p].pid = 0 /\ s.procs[p].state # "TERMINATED"

\* the current process has pid 0 and is RUNNING
KernelCurrent(s) ==
    /\ s.cur # NULL
    /\ s.procs[s.cur].pid = 0
    /\ s.procs[s.cur].state = "RUNNING"

\* C4: when init_process_manager returns, the table holds the kernel
\* process with pid 0, RUNNING and current; in every later state the kernel
\* process is present and not TERMINATED.
C4_KernelProcess ==
    [][sched'.init =>
         /\ KernelPresent(sched')
         /\ ~sched.init => KernelCurrent(sched')]_vars

\* C5: the current process is null or a live process in state RUNNING.
C5_CurrentIsRunning ==
    sched.cur # NULL =>
        Live(sched, sched.cur) /\ sched.procs[sched.cur].state = "RUNNING"

RunningSet(s) == {p \in Slots : s.procs[p].state = "RUNNING"}

\* C6: at most one process descriptor is in state RUNNING.
C6_OneRunning == Cardinality(RunningSet(sched)) <= 1

\* the timer has switched a process out at the last time a call is made:
\* one process runs, the other is back in state READY
C6_Witness ==
    /\ sched.time = MaxTime + 3
    /\ sched.stats.context_switches = 2
    /\ RunningSet(sched) = {sched.cur}
    /\ \E q \in Slots \ {sched.cur} :
          Live(sched, q) /\ sched.procs[q].state = "READY"

\* the step is a call of the function, by what it does to the state
Yields == sched' = After(yield_process(Kernel(sched, heap)))
Ticks == sched' = After(process_scheduler(Kernel(sched, heap)))
Suspends(pid) == sched' = After(suspend_process(Kernel(sched, heap), pid))
Resumes(pid) == sched' = After(resume_process(Kernel(sched, heap), pid))
Terminates(pid) == sched' = After(terminate_process(Kernel(sched, heap), pid))

CurrentRunning(s) == s.cur # NULL /\ s.procs[s.cur].state = "RUNNING"

\* p is linked in the Ready Queue behind every process of a priority value
\* up to its own and before every process of a greater one
AtPriorityPosition(s, p) ==
    \E i \in 1..Len(ReadyQueue(s)) :
        /\ ReadyQueue(s)[i] = p
        /\ \A j \in 1..Len(ReadyQueue(s)) :
              /\ j < i => s.procs[ReadyQueue(s)[j]].priority
                            <= s.procs[p].priority
              /\ j > i => s.procs[ReadyQueue(s)[j]].priority
                            > s.procs[p].priority

\* C7: when yield_process is called while a process is RUNNING and the
\* Ready Queue is not empty, then on return the yielding process is READY
\* and linked in the Ready Queue at the position its priority gives it, and
\* the former head of the queue is RUNNING.
C7_YieldRequeues ==
    [][(Yields /\ CurrentRunning(sched) /\ sched.rq # NULL) =>
         /\ sched'.procs[sched.cur].state = "READY"
         /\ AtPriorityPosition(sched', sched.cur)
         /\ sched'.procs[sched.rq].state = "RUNNING"]_vars

\* the next tick finds the slice of the current process used up
Expired(s) ==
    s.time + 1 - s.procs[s.cur].last_scheduled >= s.procs[s.cur].time_slice

\* the current process is the one calls with its pid act on
CurrentByPid(s) ==
    s.cur # NULL /\ find_process_by_pid(s, s.procs[s.cur].pid) = s.cur

\* the current process and the count of context switches are as before
SameCurrent ==
    /\ sched'.cur = sched.cur
    /\ sched'.stats.context_switches = sched.stats.context_switches

\* C8: a reschedule triggered while the Ready Queue is empty is a no-op.
\* After yield_process or a tick that finds the slice used up, a current
\* process that was RUNNING is still RUNNING and current, and no context
\* switch is counted; after suspend_process or terminate_process of the
\* current process, it is still the current process and no context switch
\* is counted.
C8_EmptyQueueNoOp ==
    [][(CurrentRunning(sched) /\ sched.rq = NULL) =>
         /\ (Yields \/ (Ticks /\ Expired(sched))) =>
              SameCurrent /\ CurrentRunning(sched')
         /\ (CurrentByPid(sched)
             /\ (Suspends(sched.procs[sched.cur].pid)
                 \/ Terminates(sched.procs[sched.cur].pid))) =>
              SameCurrent]_vars

\* a descriptor terminate_process has released
Released(s, p) == s.procs[p].pid = 0 /\ s.procs[p].state = "TERMINATED"

\* C9: termination is irreversible: no call of suspend_process,
\* resume_process, yield_process or process_scheduler, whatever its pid,
\* takes a released descriptor out of state TERMINATED or links it in the
\* Ready Queue.
C9_TerminatedStays ==
    [][(Yields \/ Ticks
        \/ \E pid \in Pids : Suspends(pid) \/ Resumes(pid)) =>
         \A p \in Slots :
             Released(sched, p) =>
                 Released(sched', p) /\ ~InReadyQueue(sched', p)]_vars

\* the addresses of the blocks of the list
Blocks(H) == {BlockList(H)[i] : i \in 1..Len(BlockList(H))}

\* block x of heap H is free and holds size bytes
FreeFit(H, x, size) == H.mem[x].is_free /\ H.mem[x].size >= size

\* the block list as a sequence of <<address, size, is_free>>
Layout(H) ==
    [i \in 1..Len(BlockList(H)) |->
       <<BlockList(H)[i], H.mem[BlockList(H)[i]].size,
         H.mem[BlockList(H)[i]].is_free>>]

\* a step of malloc that granted a block granted the lowest free block
\* that fits
FirstFitStep ==
    (last'.op = "malloc" /\ last'.ret # NULL) =>
        /\ last'.ret - HeaderSize \in Blocks(heap)
        /\ FreeFit(heap, last'.ret - HeaderSize, ALIGN_UP(last'.a))
        /\ \A x \in Blocks(heap) :
              x < last'.ret - HeaderSize => ~FreeFit(heap, x, ALIGN_UP(last'.a))

\* the heap after allocate 100 (A), allocate 200 (B), free A
ExampleBefore(H) ==
    /\ Len(BlockList(H)) = 3
    /\ Layout(H)[1] = <<HEAP_START, 104, TRUE>>
    /\ Layout(H)[2] = <<HEAP_START + 136, 200, FALSE>>
    /\ Layout(H)[3][3] = TRUE

\* the heap with C carved from A's block and a free remainder before B
ExampleAfter(H) ==
    /\ Len(BlockList(H)) = 4
    /\ Layout(H)[1] = <<HEAP_START, 56, FALSE>>
    /\ Layout(H)[2] = <<HEAP_START + 88, 16, TRUE>>
    /\ Layout(H)[3] = <<HEAP_START + 136, 200, FALSE>>
    /\ Layout(H)[4][3] = TRUE

ExampleStep ==
    (ExampleBefore(heap) /\ last'.op = "malloc" /\ last'.a = 50) =>
        (last'.ret = HEAP_START + HeaderSize /\ ExampleAfter(heap'))

\* C10: malloc is first-fit in address order: the block it grants is the
\* lowest-address free block of the list whose capacity is at least the
\* rounded request; in the example (allocate 100, allocate 200, free the
\* first, allocate 50) the last block starts where the first did and a free
\* remainder lies before the second.
C10_FirstFit == [][FirstFitStep /\ ExampleStep]_vars

\* the example has run: C sits at A's address, the remainder is free
C10_Witness ==
    /\ last.op = "malloc" /\ last.a = 50
    /\ last.ret = HEAP_START + HeaderSize
    /\ ExampleAfter(heap)

\* no free block of the list of H holds size bytes
NoneFits(H, size) == \A x \in Blocks(H) : ~FreeFit(H, x, size)

\* the step is a call of malloc on the initialised heap
MallocStep == last'.op = "malloc" /\ heap.init /\ heap.trap = "none"

\* C11: for every request size of the size type that exceeds the capacity
\* of every free block, malloc returns NULL and leaves the block list, every
\* header and the statistics as they were.
C11_TooLargeFails ==
    [][(MallocStep /\ NoneFits(heap, last'.a)) =>
         (last'.ret = NULL /\ heap' = heap)]_vars

\* C12: malloc(0) returns NULL and leaves the block list and the
\* statistics as they were.
C12_ZeroFails ==
    [][(MallocStep /\ last'.a = 0) =>
         (last'.ret = NULL /\ heap' = heap)]_vars

\* malloc(0) was called on a heap with a free block and an allocated one
C12_Witness ==
    /\ last.op = "malloc" /\ last.a = 0 /\ last.ret = NULL
    /\ live # {}
    /\ LargestFree(heap) > 0

\* the third call of a round trip: r is what the first malloc returned, f
\* the heap after the free of its handle
TripThird(r, f, size) == f.trap = "none" => malloc(f, size).ret = r.ret

TripSecond(r, size) ==
    (r.ret # NULL /\ r.H.trap = "none") =>
        TripThird(r, free(r.H, r.ret), size)

\* the sizes of a round trip: those the callers ask for, and one greater
\* than any block they are granted
TripSizes == {50, 100, 200, 1000}

\* malloc(size), free of the handle, malloc(size) again from heap H
RoundTrip(H, size) == TripSecond(malloc(H, size), size)

\* C13: from any reachable state of the heap, a malloc that succeeds, the
\* free of its handle and the same malloc again, with no other call in
\* between, return the same address.
C13_RoundTrip ==
    (heap.init /\ heap.trap = "none") =>
        \A size \in TripSizes : RoundTrip(heap, size)

\* the block malloc has just granted holds size bytes and the list has no
\* block more than before
GrantedWhole(size) ==
    /\ last'.ret # NULL
    /\ heap'.mem[last'.ret - HeaderSize].size = size
    /\ ~heap'.mem[last'.ret - HeaderSize].is_free
    /\ Len(BlockList(heap')) = Len(BlockList(heap))

\* C14: if C is the capacity of the largest free block, malloc(C) grants a
\* whole block of capacity C and makes no remainder block, and malloc(C + 1)
\* returns NULL.
C14_BoundaryOfFit ==
    [][(MallocStep /\ LargestFree(heap) >= 0) =>
         /\ last'.a = LargestFree(heap) => GrantedWhole(LargestFree(heap))
         /\ last'.a = LargestFree(heap) + 1 => last'.ret = NULL]_vars

\* the capacity of the block malloc has just granted
GrantedSize == heap'.mem[last'.ret - HeaderSize].size

\* C15: for every request size of the size type other than 0, a malloc
\* that succeeds grants a block whose capacity is a multiple of 8 and at
\* least the size asked for.
C15_RoundsUp ==
    [][(MallocStep /\ last'.a # 0 /\ last'.ret # NULL) =>
         (GrantedSize % 8 = 0 /\ GrantedSize >= last'.a)]_vars

\* block b of capacity cap was split for a request of size bytes: b holds
\* size bytes and its next is a new free block right behind its payload,
\* which holds the rest and leads to what b led to
SplitDone(b, cap, size) ==
    /\ heap'.mem[b].size = size
    /\ heap'.mem[b].next = b + HeaderSize + size
    /\ heap'.mem[b + HeaderSize + size].is_free
    /\ heap'.mem[b + HeaderSize + size].size = cap - size - HeaderSize
    /\ heap'.mem[b + HeaderSize + size].next = heap.mem[b].next
    /\ heap'.mem[b + HeaderSize + size].prev = b
    /\ Len(BlockList(heap')) = Len(BlockList(heap)) + 1

\* block b was granted as it was
WholeDone(b) ==
    /\ heap'.mem[b].size = heap.mem[b].size
    /\ heap'.mem[b].next = heap.mem[b].next
    /\ Len(BlockList(heap')) = Len(BlockList(heap))

\* the split policy for the granted block b and the rounded request size
SplitPolicy(b, size) ==
    /\ b \in Blocks(heap) /\ heap.mem[b].is_free
    /\ ~heap'.mem[b].is_free
    /\ IF heap.mem[b].size > size + HeaderSize + 8
       THEN SplitDone(b, heap.mem[b].size, size)
       ELSE WholeDone(b)

\* C16: a granted block is split if and only if its capacity exceeds the
\* rounded request by more than a header and 8 bytes; the front block then
\* holds exactly the rounded request and a new free block with the rest is
\* linked right behind it; otherwise the whole block is granted, its size
\* as it was.
C16_SplitPolicy ==
    [][(MallocStep /\ last'.ret # NULL) =>
         SplitPolicy(last'.ret - HeaderSize, ALIGN_UP(last'.a))]_vars

\* malloc granted a whole block whose capacity exceeds the rounded request
\* by exactly a header and 8 bytes
C16_Witness ==
    /\ last.op = "malloc" /\ last.ret # NULL
    /\ heap.mem[last.ret - HeaderSize].size
         = ALIGN_UP(last.a) + HeaderSize + 8

\* the header that ptr names lies outside the arena, or its tag is neither
\* the allocated nor the free value
FailsValidation(H, ptr) ==
    \/ ptr - HeaderSize < H.start
    \/ ptr - HeaderSize >= H.end
    \/ Load(H.mem, ptr - HeaderSize).magic
         \notin {BLOCK_MAGIC_ALLOCATED, BLOCK_MAGIC_FREE}

\* C17: free of a handle that fails validation adds one to the count of
\* corrupted blocks and changes nothing else: the list, the headers and the
\* other statistics are as before.
C17_InvalidFreeCounts ==
    [][(last'.op = "free" /\ last'.a # NULL /\ heap.init
        /\ heap.trap = "none" /\ FailsValidation(heap, last'.a)) =>
         heap' = [heap EXCEPT !.stats.corrupted_blocks = @ + 1]]_vars

\* free was called with a pointer into the payload of a live block, whose
\* header is in the arena but carries no tag
C17_Witness ==
    /\ last.op = "free"
    /\ last.a - 8 \in live
    /\ heap.stats.corrupted_blocks = 1
    /\ heap.stats.allocated_blocks = Cardinality(live)

\* C18: a call of init_memory_manager on a heap that is initialised
\* already is rejected: the block list, the blocks that are live and the
\* statistics are as before, and the arena is not reset to one free block.
C18_ReinitRejected ==
    [][(last'.op = "init_memory_manager" /\ heap.init) =>
         heap' = heap]_vars

\* the step is a call of realloc that has to move the live block last'.a
\* to get last'.b bytes
GrowStep ==
    /\ last'.op = "realloc"
    /\ heap.init /\ heap.trap = "none"
    /\ last'.a \in live
    /\ last'.b > heap.mem[last'.a - HeaderSize].size

\* C19: if realloc needs a new block and its malloc fails, realloc returns
\* NULL and the old block stays allocated, its size, tag and contents and
\* the statistics as before.
C19_ReallocFailKeeps ==
    [][(GrowStep /\ malloc(heap, last'.b).ret = NULL) =>
         /\ last'.ret = NULL /\ heap' = heap /\ live' = live
         /\ realloc(heap, last'.a, last'.b).H.data = heap.data]_vars

\* realloc has failed for want of a block and the handle is still live
C19_Witness ==
    /\ last.op = "realloc" /\ last.ret = NULL
    /\ last.a \in live
    /\ last.b > heap.mem[last.a - HeaderSize].size
    /\ heap.mem[last.a - HeaderSize].magic = BLOCK_MAGIC_ALLOCATED

\* the header at address b lies in a free block of the list of H
InFreeBlock(H, b) ==
    \E x \in Blocks(H) :
        /\ H.mem[x].is_free
        /\ x <= b /\ b < x + HeaderSize + H.mem[x].size

\* in the contents data that the call leaves, the payload at new holds the
\* first n bytes that the payload at old held before the call
SameBytes(data, new, old, n) ==
    /\ new \in DOMAIN data
    /\ data[new].from = Prefix(heap.data, old, n).from
    /\ data[new].len >= Prefix(heap.data, old, n).len

\* ptr is the payload of an allocated block of the list that has room for
\* n bytes
HoldsBytes(H, ptr, n) ==
    /\ (ptr - HeaderSize) \in Blocks(H)
    /\ ~H.mem[ptr - HeaderSize].is_free
    /\ H.mem[ptr - HeaderSize].size >= n

\* C20: a realloc to a larger size that succeeds returns a block whose
\* first min(old size, new size) bytes are those of the old block, and the
\* old block is free afterwards.
C20_ReallocPreserves ==
    [][(GrowStep /\ last'.ret # NULL /\ heap'.trap = "none") =>
         /\ HoldsBytes(heap', last'.ret, heap.mem[last'.a - HeaderSize].size)
         /\ SameBytes(realloc(heap, last'.a, last'.b).H.data, last'.ret,
                      last'.a, heap.mem[last'.a - HeaderSize].size)
         /\ InFreeBlock(heap', last'.a - HeaderSize)]_vars

\* realloc is called on a handle the caller holds, with a size above 0 that
\* the block's capacity covers
FitStep ==
    /\ last'.op = "realloc" /\ heap.init /\ heap.trap = "none"
    /\ last'.a \in live
    /\ 0 < last'.b /\ last'.b <= heap.mem[last'.a - HeaderSize].size

\* C21: realloc of a handle to a size above 0 and up to the capacity of its
\* block returns the same handle and leaves the block list, the payloads
\* and the statistics as they were: nothing is split off.
C21_ReallocFitKeeps ==
    [][FitStep =>
         /\ last'.ret = last'.a
         /\ heap' = heap
         /\ live' = live]_vars

\* realloc has returned the handle of a 200 byte block for a request of 50
\* bytes, which leaves room for a block of its own
C21_Witness ==
    /\ last.op = "realloc" /\ last.a # NULL /\ last.ret = last.a
    /\ last.a \in live
    /\ 0 < last.b
    /\ heap.mem[last.a - HeaderSize].size > last.b + HeaderSize + 8
    /\ ~heap.mem[last.a - HeaderSize].is_free

\* calloc is called on the initialised heap
CallocStep == last'.op = "calloc" /\ heap.init /\ heap.trap = "none"

\* C22: calloc fails and leaves the heap unchanged whenever the product of
\* count and element size does not fit the size type, and a block it grants
\* is never smaller than the true product.
C22_CallocOverflowFails ==
    [][CallocStep =>
         /\ last'.a * last'.b > SIZE_MAX =>
               (last'.ret = NULL /\ heap' = heap)
         /\ last'.ret # NULL =>
               heap'.mem[last'.ret - HeaderSize].size >= last'.a * last'.b]_vars

\* the four counters that both malloc and free maintain and
\* display_memory_info recomputes
Counters(stats) ==
    <<stats.used_memory, stats.free_memory,
      stats.allocated_blocks, stats.free_blocks>>

\* the step is a call of malloc, free, calloc or realloc on the initialised
\* heap
AllocatorStep ==
    /\ last'.op \in {"malloc", "free", "calloc", "realloc"}
    /\ heap'.init /\ heap'.trap = "none"

\* C23: after any sequence of malloc, free, calloc and realloc calls the
\* statistics kept up to date by the calls (used bytes, free bytes, count
\* of allocated blocks, count of free blocks) equal what
\* display_memory_info would compute from the block list in that state.
C23_StatsMatchScan ==
    [][AllocatorStep =>
         Counters(heap'.stats)
           = Counters(display_memory_info(heap').stats)]_vars

\* since init_process_manager every call of create_process has succeeded
\* and no process was terminated: the pids handed out are all in the table
OnlyCreated(s) ==
    /\ s.init /\ s.trap = "none" /\ heap.trap = "none"
    /\ s.count = s.next_pid - 1

\* create_process would return a descriptor now
CreateSucceeds(priority) ==
    create_process(Kernel(sched, heap), priority).ret # NULL

\* C24: from a freshly initialised process table create_process succeeds
\* MAX_PROCESSES times in a row and fails the next time: as long as only
\* creations have happened, a creation succeeds exactly while fewer than
\* MAX_PROCESSES processes were created.
C24_TableCapacity ==
    OnlyCreated(sched) =>
        \A priority \in Priorities :
            CreateSucceeds(priority) <=> sched.count < MAX_PROCESSES

\* MAX_PROCESSES creations in a row have succeeded, and the next one fails
C24_Witness ==
    /\ OnlyCreated(sched)
    /\ sched.count = MAX_PROCESSES
    /\ \A p \in Slots : Live(sched, p)
    /\ \A priority \in Priorities : ~CreateSucceeds(priority)

\* the pids that no process of the table has: 0, the pids of the processes
\* terminated since, and pids not yet handed out
DeadPids(s) ==
    (0..(s.next_pid + 1)) \ {s.procs[p].pid : p \in {q \in Slots : Live(s, q)}}

\* C25: terminate_process(0) and terminate_process of a pid that no live
\* process has change nothing in any reachable state: the descriptors, the
\* Ready Queue, the current process, the process count, the statistics and
\* the heap are as before.
C25_TerminateDeadNoOp ==
    (sched.trap = "none" /\ heap.trap = "none") =>
        \A pid \in DeadPids(sched) :
            terminate_process(Kernel(sched, heap), pid) = Kernel(sched, heap)

\* a process has been terminated and another one is live and queued:
\* terminate_process with the pid of the first one does nothing
C25_Witness ==
    /\ sched.init /\ sched.trap = "none" /\ heap.trap = "none"
    /\ sched.rq # NULL /\ sched.count >= 1
    /\ \E pid \in DeadPids(sched) \ {0} :
          /\ pid < sched.next_pid
          /\ terminate_process(Kernel(sched, heap), pid) = Kernel(sched, heap)
    /\ terminate_process(Kernel(sched, heap), 0) = Kernel(sched, heap)

\* the priority values along the Ready Queue never go down
Sorted(s) ==
    \A i \in 1..(Len(ReadyQueue(s)) - 1) :
        s.procs[ReadyQueue(s)[i]].priority
          <= s.procs[ReadyQueue(s)[i + 1]].priority

\* C26: in every reachable state the Ready Queue is sorted by ascending
\* priority value (processes of equal priority in the order they were
\* inserted, so that the queue is popped by priority, then by arrival).
C26_QueueSorted == sched.trap = "none" => Sorted(sched)

\* C27: a tick that finds the time since the RUNNING process was last
\* scheduled below its time slice changes no descriptor, leaves the Ready
\* Queue and the current process as they are and counts no context switch.
C27_TickBelowBudget ==
    [][(Ticks /\ CurrentRunning(sched) /\ ~Expired(sched)) =>
         /\ sched'.procs = sched.procs
         /\ sched'.rq = sched.rq
         /\ SameCurrent
         /\ heap' = heap]_vars

\* a process runs with part of its slice used and others wait in the Ready
\* Queue: only creations and ticks move the time without a switch, and one
\* creation moves it by one
C27_Witness ==
    /\ CurrentRunning(sched) /\ sched.rq # NULL
    /\ sched.time - sched.procs[sched.cur].last_scheduled >= 2
    /\ sched.time - sched.procs[sched.cur].last_scheduled
         < sched.procs[sched.cur].time_slice
    /\ sched.stats.context_switches = 1

\* C28: a tick that finds the time since the RUNNING process was last
\* scheduled at or above its time slice, while another process waits in
\* the Ready Queue, makes exactly one context switch:
\* the count goes up by 1, the preempted process is READY and linked in the
\* Ready Queue again, and the process that was at the head of the queue is
\* RUNNING and current.
C28_TickAtBudget ==
    [][(Ticks /\ CurrentRunning(sched) /\ Expired(sched)
        /\ sched.rq # NULL /\ sched.rq # sched.cur) =>
         /\ sched'.stats.context_switches = sched.stats.context_switches + 1
         /\ sched'.procs[sched.cur].state = "READY"
         /\ InReadyQueue(sched', sched.cur)
         /\ sched'.procs[sched.rq].state = "RUNNING"
         /\ sched'.cur = sched.rq]_vars

\* suspend_process(pid) has left the state K: the process in slot p is
\* WAITING and out of the Ready Queue, and resume_process(pid) after it
\* makes it READY and links it in the Ready Queue
SuspendedThenResumed(K, p, pid) ==
    /\ K.procs[p].state = "WAITING"
    /\ ~InReadyQueue(SchedOf(K), p)
    /\ resume_process(K, pid).procs[p].state = "READY"
    /\ InReadyQueue(SchedOf(resume_process(K, pid)), p)

\* C29: suspend_process(pid) of a live process in state READY moves it to
\* WAITING and takes it out of the Ready Queue, and resume_process(pid)
\* after it returns it to READY in the Ready Queue.
C29_SuspendReady ==
    (sched.trap = "none" /\ heap.trap = "none") =>
        \A p \in Slots :
            (Live(sched, p) /\ sched.procs[p].state = "READY"
             /\ find_process_by_pid(sched, sched.procs[p].pid) = p) =>
                SuspendedThenResumed(
                    suspend_process(Kernel(sched, heap), sched.procs[p].pid),
                    p, sched.procs[p].pid)

\* the descriptor in slot p was not RUNNING before the step and is after it
BecomesRunning(p) ==
    sched.procs[p].state # "RUNNING" /\ sched'.procs[p].state = "RUNNING"

\* q is linked in the Ready Queue before the walk from its head comes to p
Ahead(s, q, p) ==
    \E i \in 1..Len(ReadyQueue(s)) :
        /\ ReadyQueue(s)[i] = q
        /\ \A j \in 1..i : ReadyQueue(s)[j] # p

\* the step is one reschedule that has popped p from the head of the Ready
\* Queue: p was queued with nothing before it but the process that the
\* call has terminated or suspended, and unlinked, before the pop; p is
\* current now, and one context switch is counted
PoppedByReschedule(p) ==
    /\ InReadyQueue(sched, p)
    /\ \A q \in Slots \ {p} :
          Ahead(sched, q, p) =>
              /\ sched'.procs[q].state \in {"TERMINATED", "WAITING"}
              /\ sched'.procs[q].state # sched.procs[q].state
    /\ sched'.cur = p
    /\ sched'.stats.context_switches = sched.stats.context_switches + 1

\* C30: a process's state changes to RUNNING only inside the reschedule
\* operation, and only for the process that reschedule has just popped
\* from the head of the Ready Queue.
C30_RunningOnlyByPop ==
    [][\A p \in Slots : BecomesRunning(p) => PoppedByReschedule(p)]_vars

\* the reschedule has just made the head of the Ready Queue RUNNING, with
\* the next process of the queue as the new head
C30_Witness ==
    /\ CurrentRunning(sched)
    /\ sched.time = sched.procs[sched.cur].last_scheduled
    /\ sched.stats.context_switches = 1
    /\ sched.rq # NULL /\ sched.rq # sched.cur

\* terminate_process(pid) is called for the live process in slot p, which
\* the lookup by pid finds, and returns
TerminatesLive(p, pid) ==
    /\ pid # 0 /\ sched.procs[p].pid = pid
    /\ find_process_by_pid(sched, pid) = p
    /\ sched.procs[p].state # "TERMINATED"
    /\ sched.trap = "none" /\ heap.trap = "none"
    /\ Terminates(pid)
    /\ sched'.trap = "none" /\ heap'.trap = "none"

\* create_process called in state s with heap H takes a slot and returns it
Claimable(s, H) ==
    \A priority \in Priorities :
        create_process(Kernel(s, H), priority).ret # NULL

\* C31: after terminate_process(pid) on a live process with pid # 0 has
\* returned, no table slot holds that pid, the descriptor is not linked in
\* the Ready Queue, its stack block is free in the allocator, the process
\* count and the count of active processes are one less each, and its slot
\* is free for the next create_process, which succeeds.
C31_TerminateReleases ==
    [][\A p \in Slots : \A pid \in Pids :
         TerminatesLive(p, pid) =>
           /\ \A q \in Slots : sched'.procs[q].pid # pid
           /\ ~InReadyQueue(sched', p)
           /\ InFreeBlock(heap', sched.procs[p].stack_base - HeaderSize)
           /\ sched'.count = sched.count - 1
           /\ sched'.stats.active_processes
                = sched.stats.active_processes - 1
           /\ sched'.procs[p].pid = 0
           /\ Claimable(sched', heap')]_vars

\* no two live processes have the same pid
UniquePids(s) ==
    \A p \in Slots : \A q \in Slots :
        (p # q /\ Live(s, p) /\ Live(s, q)) => s.procs[p].pid # s.procs[q].pid

\* the step is a call of create_process that succeeds and takes slot p:
\* only create_process counts process_count up, and it takes the first slot
\* whose pid is 0
Creates(p) ==
    /\ sched.trap = "none" /\ sched'.trap = "none"
    /\ sched'.count = sched.count + 1
    /\ find_process_by_pid(sched, 0) = p

\* C32: pids are unique and monotonic: no two live processes share a pid,
\* and the pid that a successful create_process assigns is not 0, is
\* greater than the pid of every process of the table, and is not below
\* next_pid, the counter that is past every pid assigned before.
C32_PidsUniqueMonotonic ==
    [][/\ UniquePids(sched')
       /\ \A p \in Slots :
            Creates(p) =>
              /\ sched'.procs[p].pid # 0
              /\ sched'.procs[p].pid >= sched.next_pid
              /\ \A q \in Slots : sched'.procs[p].pid > sched.procs[q].pid]_vars

\* the step is a call of create_process with this priority
CreatesWith(priority) ==
    sched' = After(create_process(Kernel(sched, heap), priority).K)

\* create_process is called when it gets as far as the stack and malloc
\* has no block for it
StackFails ==
    /\ sched.init /\ sched.trap = "none" /\ heap.trap = "none"
    /\ sched.count < MAX_PROCESSES
    /\ find_process_by_pid(sched, 0) # NULL
    /\ malloc(heap, STACK_SIZE).ret = NULL

\* the descriptors reached from the head of the process list
ProcessList(s) == QueueFrom(s.procs, s.list, MAX_PROCESSES + 1)

\* C33: when create_process cannot obtain its stack from the allocator, it
\* returns failure, the slot it had claimed has pid 0 again, and the Ready
\* Queue, the process list, the process count, the statistics and the
\* current process are as before.
C33_StackFailureReleases ==
    [][\A priority \in Priorities :
         (StackFails /\ CreatesWith(priority)) =>
           /\ create_process(Kernel(sched, heap), priority).ret = NULL
           /\ sched'.procs[find_process_by_pid(sched, 0)].pid = 0
           /\ sched'.rq = sched.rq
           /\ ReadyQueue(sched') = ReadyQueue(sched)
           /\ sched'.list = sched.list
           /\ ProcessList(sched') = ProcessList(sched)
           /\ sched'.count = sched.count
           /\ sched'.stats = sched.stats
           /\ sched'.cur = sched.cur]_vars

\* a creation has failed for want of memory while a process was queued:
\* more pids are used up than processes were created, and the heap has no
\* free block for a stack
C33_Witness ==
    /\ sched.init /\ sched.trap = "none" /\ heap.trap = "none"
    /\ sched.next_pid > sched.stats.total_processes
    /\ sched.count = 1 /\ sched.rq # NULL
    /\ malloc(heap, STACK_SIZE).ret = NULL

\* slot p is met on the walk from the head of the process list
InProcessList(s, p) ==
    \E i \in 1..Len(ProcessList(s)) : ProcessList(s)[i] = p

\* C34: after any sequence of create_process and terminate_process calls
\* every live process is reached from the head that get_process_list
\* returns by following the next links, and the walk ends.
C34_ProcessListComplete ==
    (sched.trap = "none" /\ heap.trap = "none") =>
        /\ \A p \in Slots : Live(sched, p) => InProcessList(sched, p)
        /\ Len(ProcessList(sched)) <= MAX_PROCESSES

\* the slots that hold a live process
LiveSlots(s) == {p \in Slots : Live(s, p)}

\* the blocks of the list of H that are allocated
AllocatedBlocks(H) == {x \in Blocks(H) : ~H.mem[x].is_free}

\* the stack handle of slot p is the payload of an allocated block
OwnsStack(s, H, p) ==
    /\ s.procs[p].stack_base # 0
    /\ (s.procs[p].stack_base - HeaderSize) \in AllocatedBlocks(H)
    /\ H.mem[s.procs[p].stack_base - HeaderSize].size >= STACK_SIZE

\* C35: each live process owns one allocated stack block of its own: the
\* stack handles of the live processes are payloads of allocated blocks of
\* the heap, no two of them are the same, and, the stacks being the only
\* allocations, as many blocks are allocated as processes are live (no
\* stack is leaked, none is freed twice).
C35_StackPerProcess ==
    (sched.trap = "none" /\ heap.trap = "none" /\ heap.init) =>
        /\ \A p \in LiveSlots(sched) : OwnsStack(sched, heap, p)
        /\ \A p \in LiveSlots(sched) : \A q \in LiveSlots(sched) :
              p # q => sched.procs[p].stack_base # sched.procs[q].stack_base
        /\ Cardinality(AllocatedBlocks(heap)) = Cardinality(LiveSlots(sched))

Capacity(H, p) == H.mem[p - HeaderSize].size

\* the byte ranges [a, a + m) and [b, b + n) have no byte in common
Disjoint(a, m, b, n) == a + m <= b \/ b + n <= a

\* the payload of handle p lies in the arena of H behind a header of its
\* own, apart from the payloads of the other handles of lv and from every
\* header of the block list
PayloadApart(H, lv, p) ==
    /\ (p - HeaderSize) \in DOMAIN H.mem
    /\ H.start <= p - HeaderSize
    /\ p + Capacity(H, p) <= H.end
    /\ \A q \in lv \ {p} :
          /\ (q - HeaderSize) \in DOMAIN H.mem
          /\ Disjoint(p, Capacity(H, p), q, Capacity(H, q))
    /\ \A x \in Blocks(H) : Disjoint(p, Capacity(H, p), x, HeaderSize)

\* C37: any two handles returned by malloc, calloc or realloc and not yet
\* freed refer to disjoint byte ranges that lie entirely inside the arena,
\* and no live payload overlaps a header of a block of the list.
C37_PayloadsDisjoint ==
    (heap.init /\ heap.trap = "none") =>
        \A p \in live : PayloadApart(heap, live, p)

\* the step is a call of free with a handle that was passed to free before
\* and not handed out again since, and the call returns
SecondFree ==
    /\ last'.op = "free" /\ last'.a \in stale
    /\ misuse' = misuse + 1
    /\ heap.trap = "none" /\ heap'.trap = "none"

\* C38: free is idempotent: a second call of free on a handle that was
\* freed already, also one whose block coalescing has absorbed since,
\* leaves the block list, the sizes of the blocks and the counts of used and
\* free bytes and of allocated and free blocks as they were.
C38_FreeIdempotent ==
    [][SecondFree =>
         /\ Layout(heap') = Layout(heap)
         /\ Counters(heap'.stats) = Counters(heap.stats)]_vars

\* the walk from the head of the Ready Queue ends, and meets no descriptor
\* twice
Acyclic(s) ==
    /\ Len(ReadyQueue(s)) <= MAX_PROCESSES
    /\ \A i \in 1..Len(ReadyQueue(s)) : \A j \in 1..Len(ReadyQueue(s)) :
          i # j => ReadyQueue(s)[i] # ReadyQueue(s)[j]

\* C39: in every reachable state of the process manager the Ready Queue is
\* a finite chain without a cycle in which each descriptor appears at most
\* once and every member is a live process, and no walk of
\* add_to_ready_queue or remove_from_ready_queue has failed to end.
C39_QueueAcyclicLive ==
    /\ sched.trap # "hang"
    /\ Acyclic(sched)
    /\ \A i \in 1..Len(ReadyQueue(sched)) : Live(sched, ReadyQueue(sched)[i])

\* a live process that is switched out for good: READY, not suspended, not
\* the current process and not linked in the Ready Queue.
\* schedule_next_process is the only function that sets a state to RUNNING
\* and it takes the head of the Ready Queue, so such a process runs again
\* only if some call links it
SwitchedOut(s, p) ==
    /\ Live(s, p)
    /\ s.procs[p].state = "READY"
    /\ ~s.procs[p].is_suspended
    /\ p # s.cur
    /\ ~InReadyQueue(s, p)

\* with no termination and no suspension, no call links a process that
\* is switched out: it stays switched out in every later state
SwitchedOutForGood ==
    [][\A p \in Slots : SwitchedOut(sched, p) => SwitchedOut(sched', p)]_vars

\* C40: no process is lost by preemption. A process that was RUNNING and
\* is preempted by yield_process or by an expired-slice tick, and is never
\* terminated or suspended, becomes RUNNING again as long as the processes
\* after it keep yielding or using up their slices: in every state a
\* preempted process waits in the Ready Queue for its turn.
C40_NoProcessLost ==
    sched.trap = "none" => \A p \in Slots : ~SwitchedOut(sched, p)

====
